---- MODULE Spec2Model ----
(***************************************************************************)
(* A model of the OS enumeration (osenum.py: OSInfo, OSEnum) and of the    *)
(* stub installer (stub.py: StubInstaller) of asahi-installer.             *)
(*                                                                         *)
(* Python values are represented as follows.                               *)
(*   None / Optional[x]   the empty sequence <<>> / the one-element <<x>>  *)
(*   str (labels, names)  a sequence of one-character strings              *)
(*   bytes (tool output)  a sequence of tokens (see Tag, NL, ABSENT)       *)
(*   list                 a sequence                                       *)
(*   dict                 a function on the set of its keys                *)
(*   an exception         a non-empty "fault" string naming it             *)
(***************************************************************************)
EXTENDS Integers, Sequences, FiniteSets, TLC

VARIABLES
    part,       \* the Partition object: type, label, container view, os list
    disk,       \* the container as it is on disk (what refresh_part reads)
    locked,     \* the device ids whose dutil.mount raises
    sysinfo,    \* the system-info collaborator's fields
    fs,         \* the environment: what is found on the mounted volumes, what
                \* bputil answers, whether DiskUtility calls take effect
    pc,         \* the operation that has run last ("start": none yet)
    ret,        \* that operation's outcome: the fault raised, the value returned
    osi,        \* StubInstaller.osi
    calls,      \* the collaborator calls issued so far, in order
    entry,      \* the container view prepare_volume was entered with
    label,      \* StubInstaller.label
    manifest,   \* BuildManifest.plist's BuildIdentities
    selected,   \* the build identity install_files went on with
    attached,   \* whether the recovery ramdisk image is attached
    bpmap       \* the boot-policy map parsed from fs.bps

vars == <<part, disk, locked, sysinfo, fs, pc, ret, osi, calls, entry, label,
          manifest, selected, attached, bpmap>>

----------------------------------------------------------------------------
(* Bounds of the model *)

\* the most volumes of one exact role list ([Preboot], [Recovery]) a generated container holds
MaxDup == 2
\* the most volume groups a generated container holds
MaxGroups == 2
\* the most volumes of a container prepare_volume is entered with
MaxVols == 4
\* the most build identities of a generated manifest
MaxIdent == 3
\* the most tokens of a generated boot-policy text
MaxText == 3

----------------------------------------------------------------------------
(* Python values *)

None == <<>>
Some(v) == <<v>>
IsNone(o) == Len(o) = 0
Get(o) == o[1]

NoFault == ""

Max(S) == CHOOSE x \in S : \A y \in S : y <= x
Min(S) == CHOOSE x \in S : \A y \in S : x <= y

Contains(s, tok) == \E i \in 1..Len(s) : s[i] = tok

IndexOf(s, tok) == Min({i \in 1..Len(s) : s[i] = tok})

\* bytes.split(sep) for a one-token separator: the pieces between its occurrences
RECURSIVE Split(_, _)
Split(s, sep) ==
    IF ~Contains(s, sep) THEN <<s>>
    ELSE LET i == IndexOf(s, sep)
         IN  <<SubSeq(s, 1, i - 1)>> \o Split(SubSeq(s, i + 1, Len(s)), sep)

\* the dict keys tuple(roles) and a bare role string: a str never equals a tuple
TupleKey(roles) == [t |-> "tuple", v |-> roles]
StrKey(role) == [t |-> "str", v |-> <<role>>]

----------------------------------------------------------------------------
(* osenum.py *)

UUID_SROS == <<"3D3287DE-280D-4619-AAAB-D97469CA9C71">>
UUID_FROS == <<"C8858560-55AC-400F-BBB9-C9220A8DAC0D">>

OSInfo(vgid) ==
    [vgid |-> vgid, label |-> None, sys_volume |-> None, data_volume |-> None,
     stub |-> FALSE, version |-> None, m1n1_ver |-> None, system |-> None,
     data |-> None, preboot |-> None, recovery |-> None, rec_vgid |-> None,
     bp |-> None]

\* the truth value Python gives an Optional[str]
Truthy(o) == ~IsNone(o) /\ Len(Get(o)) > 0

\* "self.bp and self.bp.get('coih', None)": the boot-policy map is set and not
\* empty, and its coih entry is a non-empty string
CoihTruthy(o) ==
    /\ ~IsNone(o.bp)
    /\ DOMAIN Get(o.bp) # {}
    /\ "coih" \in DOMAIN Get(o.bp)
    /\ Truthy(Get(o.bp)["coih"])

\* the display form with its format arguments
Form(name, o) == [form |-> name, label |-> o.label, version |-> o.version,
                  m1n1_ver |-> o.m1n1_ver, sys_volume |-> o.sys_volume,
                  vgid |-> o.vgid]

\* a display function whose stub branch asks whether m1n1_ver is not None
OSInfo_str_NotNone(o) ==
    IF o.vgid = UUID_SROS THEN Form("recoveryOS [Primary recoveryOS]", o)
    ELSE IF o.vgid = UUID_FROS THEN Form("recoveryOS [Fallback recoveryOS]", o)
    ELSE IF ~o.stub
    THEN IF ~IsNone(o.m1n1_ver) THEN Form("macOS + m1n1", o)
         ELSE IF CoihTruthy(o) THEN Form("macOS + unknown fuOS", o)
         ELSE Form("macOS", o)
    ELSE IF CoihTruthy(o)
    THEN IF ~IsNone(o.m1n1_ver) THEN Form("m1n1 (macOS stub)", o)
         ELSE Form("unknown fuOS (macOS stub)", o)
    ELSE Form("incomplete install (macOS stub)", o)

\* OSInfo.__str__
OSInfo_str(o) ==
    IF o.vgid = UUID_SROS THEN Form("recoveryOS [Primary recoveryOS]", o)
    ELSE IF o.vgid = UUID_FROS THEN Form("recoveryOS [Fallback recoveryOS]", o)
    ELSE IF ~o.stub
    THEN IF ~IsNone(o.m1n1_ver) THEN Form("macOS + m1n1", o)
         ELSE IF CoihTruthy(o) THEN Form("macOS + unknown fuOS", o)
         ELSE Form("macOS", o)
    ELSE IF CoihTruthy(o)
    THEN IF Truthy(o.m1n1_ver) THEN Form("m1n1 (macOS stub)", o)
         ELSE Form("unknown fuOS (macOS stub)", o)
    ELSE Form("incomplete install (macOS stub)", o)

\* by_role.get(key, None) / by_role.get(key, []): the volumes filed under key
ByRoleGet(volumes, key) ==
    SelectSeq(volumes, LAMBDA v : TupleKey(v.Roles) = key)

\* by_device[dev]: the last volume of the container with that device id
ByDevice(volumes, dev) ==
    volumes[Max({i \in 1..Len(volumes) : volumes[i].DeviceIdentifier = dev})]

\* dutil.mount(dev): the mount path, or a fault for a device that cannot be mounted
MountPath(dev) == <<"/Volumes", dev>>
MountFails(dev) == dev \in locked

\* OSEnum.bputil's outcome: "ok", or the exception subprocess.run raises
BputilOutcomes == {"ok", "CalledProcessError", "FileNotFoundError"}

\* tokens of the boot-policy text and of the custom kernelcache
Tag(k) == IF k = "coih" THEN "(coih): " ELSE "(nsih): "
NL == "\n"
ABSENT == "absent"
M1N1_MARKER == "##m1n1_ver##"
NUL == "\\0"

BPKeys == <<"coih", "nsih">>

\* the value collect_os stores for tag k: split on the tag, then on the line break
BPValue(bps, k) ==
    LET val == Split(Split(bps, Tag(k))[2], NL)[1]
    IN  IF val = <<ABSENT>> THEN None ELSE Some(val)

\* the loop over ("coih", "nsih") filling osi.bp
ParseBP(bps) ==
    [k \in {BPKeys[i] : i \in {j \in 1..Len(BPKeys) : Contains(bps, Tag(BPKeys[j]))}}
        |-> BPValue(bps, k)]

BPGet(bp, k) == IF k \in DOMAIN bp THEN bp[k] ELSE None

\* the loop over the two candidate version files; a missing file is skipped
VersionFiles == <<"SystemVersion.plist", "SystemVersion-disabled.plist">>

RECURSIVE ReadVersion(_, _, _)
ReadVersion(plists, i, version) ==
    IF i > Len(VersionFiles) THEN version
    ELSE IF IsNone(plists[VersionFiles[i]])
         THEN ReadVersion(plists, i + 1, version)
         ELSE ReadVersion(plists, i + 1, plists[VersionFiles[i]])

\* the m1n1 version stage of collect_os: the fault it raises and osi.m1n1_ver
FindM1n1(bp, files) ==
    IF ~Truthy(BPGet(bp, "coih")) THEN [fault |-> NoFault, m1n1_ver |-> None]
    ELSE IF "nsih" \notin DOMAIN bp THEN [fault |-> "KeyError", m1n1_ver |-> None]
    ELSE IF IsNone(bp["nsih"]) THEN [fault |-> "TypeError", m1n1_ver |-> None]
    ELSE IF IsNone(files.kernelcache)
         THEN [fault |-> "FileNotFoundError", m1n1_ver |-> None]
    ELSE LET fuos == Get(files.kernelcache)
         IN  IF Contains(fuos, M1N1_MARKER)
             THEN [fault |-> NoFault,
                   m1n1_ver |-> Some(Split(Split(fuos, M1N1_MARKER)[2], NUL)[1])]
             ELSE [fault |-> NoFault, m1n1_ver |-> None]

RequiredMounts == <<"Preboot", "Recovery", "System">>

\* the record collect_os has built when it queries the boot policy
BuildRecord(volumes, vgid, files) ==
    [OSInfo(vgid) EXCEPT
        !.stub = ~files.library,
        !.label = Some(volumes["System"].Name),
        !.sys_volume = Some(volumes["System"].DeviceIdentifier),
        !.system = Some(MountPath(volumes["System"].DeviceIdentifier)),
        !.data = IF MountFails(volumes["Data"].DeviceIdentifier) THEN None
                 ELSE Some(MountPath(volumes["Data"].DeviceIdentifier)),
        !.preboot = Some(MountPath(volumes["Preboot"].DeviceIdentifier)),
        !.recovery = Some(MountPath(volumes["Recovery"].DeviceIdentifier)),
        !.rec_vgid = Some(volumes["Recovery"].APFSVolumeUUID),
        !.version = ReadVersion(files.plists, 1, None)]

\* collect_os from the boot-policy map on: the m1n1 version, or its fault
WithBootPolicy(rec, bp, m, mounts) ==
    IF m.fault # NoFault
    THEN [fault |-> m.fault, osi |-> None, mounts |-> mounts]
    ELSE [fault |-> NoFault, mounts |-> mounts,
          osi |-> Some([rec EXCEPT !.bp = Some(bp), !.m1n1_ver = m.m1n1_ver])]

\* collect_os from the bputil call on
QueryBootPolicy(rec, files, mounts) ==
    IF files.bputil = "FileNotFoundError"
    THEN [fault |-> "FileNotFoundError", osi |-> None, mounts |-> mounts]
    ELSE IF files.bputil = "CalledProcessError"
    THEN [fault |-> NoFault, osi |-> Some(rec), mounts |-> mounts]
    ELSE WithBootPolicy(rec, ParseBP(files.bps),
                        FindM1n1(ParseBP(files.bps), files), mounts)

\* the devices collect_os mounts, in order: the three required ones, then Data
MountOrder(volumes) ==
    [i \in 1..Len(RequiredMounts) |-> volumes[RequiredMounts[i]].DeviceIdentifier]
        \o <<volumes["Data"].DeviceIdentifier>>

\* a collect_os in which the Data mount is as fatal as the other three
FailedMounts_DataToo(volumes) ==
    {i \in 1..4 :
        MountFails((<<volumes["Preboot"], volumes["Recovery"], volumes["System"],
                      volumes["Data"]>>)[i].DeviceIdentifier)}

\* the positions in MountOrder of the required mounts that raise
FailedMounts(volumes) ==
    {i \in 1..Len(RequiredMounts) :
        MountFails(volumes[RequiredMounts[i]].DeviceIdentifier)}

\* OSEnum.collect_os: the fault raised (if any), the record returned, the mounts tried
collect_os(volumes, vgid, files) ==
    IF FailedMounts(volumes) # {}
    THEN [fault |-> "MountError", osi |-> None,
          mounts |-> SubSeq(MountOrder(volumes), 1, Min(FailedMounts(volumes)))]
    ELSE QueryBootPolicy(BuildRecord(volumes, vgid, files), files, MountOrder(volumes))

\* the members of a volume group with a given Role
VGMembers(vg, role) == SelectSeq(vg.Volumes, LAMBDA i : i.Role = role)

\* a group filter that only asks for a member of each role
WellFormedVG_AtLeastOne(vg) ==
    Len(VGMembers(vg, "Data")) >= 1 /\ Len(VGMembers(vg, "System")) >= 1

WellFormedVG(vg) ==
    Len(VGMembers(vg, "Data")) = 1 /\ Len(VGMembers(vg, "System")) = 1

\* the four volumes collect_part hands to collect_os for a volume group
GroupVolumes(ct, pr, vg) ==
    [Preboot |-> pr["Preboot"], Recovery |-> pr["Recovery"],
     Data |-> ByDevice(ct.Volumes, VGMembers(vg, "Data")[1].DeviceIdentifier),
     System |-> ByDevice(ct.Volumes, VGMembers(vg, "System")[1].DeviceIdentifier)]

\* the loop of collect_part over ct["VolumeGroups"], from group i on;
\* AfterGroup is the loop body once collect_os has answered r for group i
RECURSIVE CollectGroups(_, _, _, _, _, _)
RECURSIVE AfterGroup(_, _, _, _, _, _, _)
AfterGroup(ct, pr, files, i, os, mounts, r) ==
    IF r.fault # NoFault
    THEN [fault |-> r.fault, os |-> os, mounts |-> mounts \o r.mounts]
    ELSE CollectGroups(ct, pr, files, i + 1, Append(os, Get(r.osi)),
                       mounts \o r.mounts)

CollectGroups(ct, pr, files, i, os, mounts) ==
    IF i > Len(ct.VolumeGroups) THEN [fault |-> NoFault, os |-> os, mounts |-> mounts]
    ELSE IF ~WellFormedVG(ct.VolumeGroups[i])
         THEN CollectGroups(ct, pr, files, i + 1, os, mounts)
         ELSE AfterGroup(ct, pr, files, i, os, mounts,
                         collect_os(GroupVolumes(ct, pr, ct.VolumeGroups[i]),
                                    ct.VolumeGroups[i].APFSVolumeGroupUUID, files))

\* the value collect_part returns on an early exit
EarlyReturn == None

\* what collect_part returns once the loop over the volume groups has ended in r
ReturnOS(r) ==
    [fault |-> r.fault, os |-> r.os, mounts |-> r.mounts,
     val |-> IF r.fault = NoFault THEN Some(r.os) ELSE None]

\* collect_part on a container: the Preboot and Recovery checks, then the groups
ClassifyContainer(ct, pre, rec, files) ==
    IF Len(pre) # 1 \/ Len(rec) # 1
    THEN [fault |-> NoFault, val |-> EarlyReturn, os |-> <<>>, mounts |-> <<>>]
    ELSE ReturnOS(CollectGroups(ct, [Preboot |-> pre[1], Recovery |-> rec[1]],
                                files, 1, <<>>, <<>>))

\* OSEnum.collect_part: the fault raised, the value returned (None: no value),
\* part.os afterwards, the mounts tried
collect_part(p, files) ==
    IF IsNone(p.container)
    THEN [fault |-> NoFault, val |-> None, os |-> p.os, mounts |-> <<>>]
    ELSE ClassifyContainer(Get(p.container),
             ByRoleGet(Get(p.container).Volumes, TupleKey(<<"Preboot">>)),
             ByRoleGet(Get(p.container).Volumes, TupleKey(<<"Recovery">>)), files)

\* a collect_recovery that adds the fallback record for any version that is not None
collect_recovery_NotNone(p, si) ==
    LET recs == SelectSeq(Get(p.container).Volumes,
                          LAMBDA v : v.Roles = <<"Recovery">>)
    IN  IF Len(recs) # 1 THEN p.os
        ELSE LET sros == [OSInfo(UUID_SROS) EXCEPT
                             !.rec_vgid = Some(recs[1].APFSVolumeUUID),
                             !.version = si.sfr_ver]
                 fros == [OSInfo(UUID_FROS) EXCEPT !.version = si.fsfr_ver]
             IN  IF ~IsNone(si.fsfr_ver)
                 THEN p.os \o <<sros, fros>>
                 ELSE Append(p.os, sros)

\* OSEnum.collect_recovery: part.os afterwards (it returns nothing and raises nothing)
collect_recovery(p, si) ==
    LET recs == SelectSeq(Get(p.container).Volumes,
                          LAMBDA v : v.Roles = <<"Recovery">>)
    IN  IF Len(recs) # 1 THEN p.os
        ELSE LET sros == [OSInfo(UUID_SROS) EXCEPT
                             !.rec_vgid = Some(recs[1].APFSVolumeUUID),
                             !.version = si.sfr_ver]
                 fros == [OSInfo(UUID_FROS) EXCEPT !.version = si.fsfr_ver]
             IN  IF Truthy(si.fsfr_ver)
                 THEN p.os \o <<sros, fros>>
                 ELSE Append(p.os, sros)

\* OSEnum.collect for one partition: part.os is cleared, then filled by type
collect(p, si, files) ==
    IF p.type = "Apple_APFS_Recovery"
    THEN [fault |-> NoFault, mounts |-> <<>>, val |-> None,
          os |-> collect_recovery([p EXCEPT !.os = <<>>], si)]
    ELSE collect_part([p EXCEPT !.os = <<>>], files)

----------------------------------------------------------------------------
(* stub.py: check_volume *)

NotReady == "Container is not ready for OS install"

\* check_volume once collect_part has answered r
CheckOS(r, cur) ==
    IF r.fault # NoFault
    THEN [fault |-> r.fault, os |-> r.os, osi |-> cur, mounts |-> r.mounts]
    ELSE IF IsNone(r.val)
    THEN [fault |-> "TypeError", os |-> r.os, osi |-> cur, mounts |-> r.mounts]
    ELSE IF Len(Get(r.val)) # 1
    THEN [fault |-> NotReady, os |-> r.os, osi |-> cur, mounts |-> r.mounts]
    ELSE [fault |-> NoFault, os |-> r.os, osi |-> Some(Get(r.val)[1]),
          mounts |-> r.mounts]

\* StubInstaller.check_volume: the fault raised, part.os and self.osi afterwards
check_volume(p, files, cur) == CheckOS(collect_part(p, files), cur)

----------------------------------------------------------------------------
(* The DiskUtility collaborator: its calls and what they do to the container on
   disk. A volume's device id is its position in the container. *)

DutilCall(op, dev, name, role, groupWith) ==
    [op |-> op, dev |-> dev, name |-> name, role |-> role, groupWith |-> groupWith]

\* the role a role code of addVolume / changeVolumeRole stands for
RoleOfCode(code) ==
    CASE code = "D" -> "Data"
      [] code = "S" -> "System"
      [] code = "B" -> "Preboot"
      [] code = "R" -> "Recovery"

VolumeRecord(dev, name, roles) ==
    [DeviceIdentifier |-> dev, Name |-> name, Roles |-> roles,
     APFSVolumeUUID |-> <<"UUID", dev>>]

\* the volume groups once volume dev has joined the group of volume groupWith:
\* that volume's group if it has one, else a new group of the two
GroupedWith(d, dev, role, groupWith) ==
    IF \E g \in 1..Len(d.VolumeGroups) :
           \E m \in 1..Len(d.VolumeGroups[g].Volumes) :
               d.VolumeGroups[g].Volumes[m].DeviceIdentifier = groupWith
    THEN [g \in 1..Len(d.VolumeGroups) |->
             IF \E m \in 1..Len(d.VolumeGroups[g].Volumes) :
                    d.VolumeGroups[g].Volumes[m].DeviceIdentifier = groupWith
             THEN [d.VolumeGroups[g] EXCEPT
                      !.Volumes = Append(@, [DeviceIdentifier |-> dev, Role |-> role])]
             ELSE d.VolumeGroups[g]]
    ELSE Append(d.VolumeGroups,
                [APFSVolumeGroupUUID |-> <<"VG", Len(d.VolumeGroups) + 1>>,
                 Volumes |-> <<[DeviceIdentifier |-> groupWith,
                                Role |-> IF Len(d.Volumes[groupWith].Roles) = 1
                                         THEN d.Volumes[groupWith].Roles[1]
                                         ELSE "None"],
                               [DeviceIdentifier |-> dev, Role |-> role]>>])

\* dutil.addVolume(ctref, name, role=, groupWith=): groupWith 0 stands for None
addVolume(d, name, role, groupWith) ==
    [Volumes |-> Append(d.Volumes,
                        VolumeRecord(Len(d.Volumes) + 1, name, <<RoleOfCode(role)>>)),
     VolumeGroups |-> IF groupWith = 0 THEN d.VolumeGroups
                      ELSE GroupedWith(d, Len(d.Volumes) + 1, RoleOfCode(role),
                                       groupWith)]

\* dutil.changeVolumeRole(dev, role)
changeVolumeRole(d, dev, role) ==
    [d EXCEPT !.Volumes[dev].Roles = <<RoleOfCode(role)>>]

\* dutil.rename(dev, name)
rename(d, dev, name) == [d EXCEPT !.Volumes[dev].Name = name]

\* the container on disk after a call
Applied(d, c) ==
    CASE c.op = "addVolume" -> addVolume(d, c.name, c.role, c.groupWith)
      [] c.op = "changeVolumeRole" -> changeVolumeRole(d, c.dev, c.role)
      [] c.op = "rename" -> rename(d, c.dev, c.name)
      [] OTHER -> d

----------------------------------------------------------------------------
(* stub.py: prepare_volume. Its progress is a record st: the fault raised, the
   view part.container, the view at entry (by_role is built from it), the
   container on disk, the calls issued, self.label and data_volume. *)

Chars_Linux == <<"L", "i", "n", "u", "x">>
Chars_DataSuffix == <<" ", "-", " ", "D", "a", "t", "a">>
Chars_Preboot == <<"P", "r", "e", "b", "o", "o", "t">>
Chars_Recovery == <<"R", "e", "c", "o", "v", "e", "r", "y">>

\* str.rstrip(chars): the trailing characters that are among chars are removed
RECURSIVE RStrip(_, _)
RStrip(str, chars) ==
    IF Len(str) > 0 /\ Contains(chars, str[Len(str)])
    THEN RStrip(SubSeq(str, 1, Len(str) - 1), chars)
    ELSE str

\* whether the DiskUtility calls take effect on the container on disk
DutilApplies == fs.dutil_applies

\* st after a DiskUtility call that changes the container
Issue(st, c) ==
    [st EXCEPT !.calls = Append(@, c),
               !.disk = IF DutilApplies THEN Applied(@, c) ELSE @]

\* st after dutil.refresh_part(self.part)
Refreshed(st) ==
    [st EXCEPT !.calls = Append(@, DutilCall("refresh_part", 0, <<>>, "", 0)),
               !.view = st.disk]

Raised(st, fault) == [st EXCEPT !.fault = fault]

TargetRoles == <<"Preboot", "Recovery", "Data", "System">>

\* the key the check for several volumes of a role looks by_role up with
MultipleKey(role) == StrKey(role)

\* "for role in (...): vols = by_role.get(role, []); if len(vols) > 1: raise"
CheckMultiple(st) ==
    IF \E i \in 1..Len(TargetRoles) :
           Len(ByRoleGet(st.entry.Volumes, MultipleKey(TargetRoles[i]))) > 1
    THEN Raised(st, "Multiple volumes")
    ELSE st

\* "self.label = self.part.label or 'Linux'"
SetLabel(st, partlabel) ==
    IF st.fault # NoFault THEN st
    ELSE [st EXCEPT !.label = IF Truthy(partlabel) THEN Get(partlabel)
                                ELSE Chars_Linux]

\* a Data step that creates a Data volume although an unroled volume is there
DataStep_AlwaysAdd(st) ==
    IF st.fault # NoFault THEN st
    ELSE IF Len(ByRoleGet(st.entry.Volumes, TupleKey(<<"Data">>))) = 0
    THEN Refreshed(Issue(st, DutilCall("addVolume", 0, st.label, "D", 0)))
    ELSE [st EXCEPT !.label = RStrip(@, Chars_DataSuffix)]

\* the Data step: repurpose the unroled volume, or create a Data volume, and
\* refresh; with a Data volume at entry, strip the label
DataStep(st) ==
    IF st.fault # NoFault THEN st
    ELSE IF Len(ByRoleGet(st.entry.Volumes, TupleKey(<<"Data">>))) = 0
    THEN IF Len(ByRoleGet(st.entry.Volumes, TupleKey(<<>>))) > 0
         THEN Refreshed(
                Issue(Issue(st,
                    DutilCall("changeVolumeRole",
                        ByRoleGet(st.entry.Volumes, TupleKey(<<>>))[1].DeviceIdentifier,
                        <<>>, "D", 0)),
                    DutilCall("rename",
                        ByRoleGet(st.entry.Volumes, TupleKey(<<>>))[1].DeviceIdentifier,
                        st.label \o Chars_DataSuffix, "", 0)))
         ELSE Refreshed(Issue(st, DutilCall("addVolume", 0, st.label, "D", 0)))
    ELSE [st EXCEPT !.label = RStrip(@, Chars_DataSuffix)]

\* "for volume in self.part.container['Volumes']: if volume['Roles'] == ['Data']"
FindData(st) ==
    IF st.fault # NoFault THEN st
    ELSE IF \E i \in 1..Len(st.view.Volumes) : st.view.Volumes[i].Roles = <<"Data">>
    THEN [st EXCEPT !.data_volume =
             st.view.Volumes[Min({i \in 1..Len(st.view.Volumes) :
                 st.view.Volumes[i].Roles = <<"Data">>})].DeviceIdentifier]
    ELSE Raised(st, "Could not find Data volume")

\* "if not by_role.get((role,), None): self.dutil.addVolume(...)"
AddIfMissing(st, role, c) ==
    IF st.fault # NoFault THEN st
    ELSE IF Len(ByRoleGet(st.entry.Volumes, TupleKey(<<role>>))) = 0
    THEN Issue(st, c)
    ELSE st

\* a System step that does not group the new volume with the Data volume
AddSystem_Ungrouped(st) ==
    AddIfMissing(st, "System", DutilCall("addVolume", 0, st.label, "S", 0))

AddSystem(st) ==
    AddIfMissing(st, "System", DutilCall("addVolume", 0, st.label, "S", st.data_volume))

AddPreboot(st) ==
    AddIfMissing(st, "Preboot", DutilCall("addVolume", 0, Chars_Preboot, "B", 0))

AddRecovery(st) ==
    AddIfMissing(st, "Recovery", DutilCall("addVolume", 0, Chars_Recovery, "R", 0))

\* an end of prepare_volume that leaves the view as it is
FinalRefresh_None(st) == st

FinalRefresh(st) == IF st.fault # NoFault THEN st ELSE Refreshed(st)

\* StubInstaller.prepare_volume on a partition with a container
prepare_volume(p, d) ==
    FinalRefresh(AddRecovery(AddPreboot(AddSystem(FindData(DataStep(
        SetLabel(CheckMultiple(
            [fault |-> NoFault, view |-> Get(p.container),
             entry |-> Get(p.container), disk |-> d, calls |-> <<>>,
             label |-> <<>>, data_volume |-> 0]),
            p.label)))))))

----------------------------------------------------------------------------
(* stub.py: install_files and collect_firmware *)

HexDigits == <<"0", "1", "2", "3", "4", "5", "6", "7", "8", "9",
               "A", "B", "C", "D", "E", "F">>

\* format(n, 'X'): the upper-case hexadecimal digits of n
RECURSIVE HexStr(_)
HexStr(n) ==
    IF n < 16 THEN <<HexDigits[n + 1]>>
    ELSE HexStr(n \div 16) \o <<HexDigits[(n % 16) + 1]>>

RECURSIVE ZeroPad(_, _)
ZeroPad(str, width) == IF Len(str) >= width THEN str ELSE ZeroPad(<<"0">> \o str, width)

\* f'0x{n:0<width>X}'
FormatHex(n, width) == <<"0", "x">> \o ZeroPad(HexStr(n), width)

\* an identity check that forgets the Variant
IdentityMatches_NoVariant(identity, si) ==
    ~(\/ identity.ApBoardID # FormatHex(si.board_id, 2)
      \/ identity.ApChipID # FormatHex(si.chip_id, 4)
      \/ identity.Info.DeviceClass # si.device_class
      \/ identity.Info.RestoreBehavior # "Erase")

\* the condition under which the loop over the build identities does not `continue`
IdentityMatches(identity, si) ==
    ~(\/ identity.ApBoardID # FormatHex(si.board_id, 2)
      \/ identity.ApChipID # FormatHex(si.chip_id, 4)
      \/ identity.Info.DeviceClass # si.device_class
      \/ identity.Info.RestoreBehavior # "Erase"
      \/ identity.Info.Variant # "macOS Customer")

\* "for identity in manifest['BuildIdentities']: if ...: continue; break": the
\* first identity that matches, None when the loop runs into its else
SelectIdentity(identities, si) ==
    IF \E i \in 1..Len(identities) : IdentityMatches(identities[i], si)
    THEN Some(identities[Min({i \in 1..Len(identities) :
                                 IdentityMatches(identities[i], si)})])
    ELSE None

NoIdentity == "Failed to locate a usable build identity for this device"

FileStep(op, volume, what) ==
    [op |-> op, dev |-> 0, name |-> <<volume>>, role |-> what, groupWith |-> 0]

\* install_files up to the copy of AdminUserRecoveryInfo.plist
StepsBeforeAdminUsers ==
    <<FileStep("extract", "System", "bootcaches.plist"),
      FileStep("copy", "System", ".VolumeIcon.icns"),
      FileStep("makedirs", "System", "CoreServices"),
      FileStep("extract", "System", "PlatformSupport.plist"),
      FileStep("xattr", "System", "com.apple.FinderInfo"),
      FileStep("makedirs", "Data", "private/var/db/dslocal"),
      FileStep("makedirs", "Preboot", "restore bundle"),
      FileStep("write", "Preboot", "BuildManifest.plist"),
      FileStep("extract", "Preboot", "restore bundle files"),
      FileStep("makedirs", "Preboot", "var/db")>>

\* install_files after the immutable flag has been set
StepsAfterAdminUsers ==
    <<FileStep("symlink", "System", "restore bundle"),
      FileStep("makedirs", "Recovery", "usr/standalone/firmware"),
      FileStep("extract", "Recovery", "arm64eBaseSystem.dmg"),
      FileStep("write", "System", "SystemVersion.plist"),
      FileStep("copytree", "System", "Finish Installation.app"),
      FileStep("write", "System", "step2.sh"),
      FileStep("copy", "System", ".IAPhysicalMedia")>>

CopyAdminUsers == FileStep("copy", "Preboot", "AdminUserRecoveryInfo.plist")

\* an install that never clears the flag of the target
ClearFlag_Never(files) == <<>>

\* "if os.path.exists(tg_admin_users): self.chflags('noschg', tg_admin_users)"
ClearFlag(files) ==
    IF files.tg_admin_users THEN <<FileStep("chflags", "Preboot", "noschg")>>
    ELSE <<>>

\* what install_files does once the identity is chosen: the steps that took
\* effect, in order, each with the volume it writes to, and the fault of the
\* step that failed (chflags runs with check=True, shutil.copy raises when the
\* current OS has no AdminUserRecoveryInfo.plist)
InstallSteps(files) ==
    IF files.tg_admin_users /\ files.chflags # "ok"
    THEN [fault |-> files.chflags, steps |-> StepsBeforeAdminUsers]
    ELSE IF ~files.admin_users
    THEN [fault |-> "FileNotFoundError",
          steps |-> StepsBeforeAdminUsers \o ClearFlag(files)]
    ELSE IF files.chflags # "ok"
    THEN [fault |-> files.chflags,
          steps |-> StepsBeforeAdminUsers \o ClearFlag(files) \o <<CopyAdminUsers>>]
    ELSE [fault |-> NoFault,
          steps |-> StepsBeforeAdminUsers \o ClearFlag(files)
                    \o <<CopyAdminUsers, FileStep("chflags", "Preboot", "schg")>>
                    \o StepsAfterAdminUsers]

\* install_files once the loop over the identities has ended in sel
InstallWith(sel, files) ==
    IF IsNone(sel) THEN [fault |-> NoIdentity, selected |-> None, steps |-> <<>>]
    ELSE [fault |-> InstallSteps(files).fault, selected |-> sel,
          steps |-> InstallSteps(files).steps]

\* StubInstaller.install_files: the fault raised, the identity chosen, the writes
install_files(identities, si, files) ==
    InstallWith(SelectIdentity(identities, si), files)

\* StubInstaller.collect_firmware: the calls made, the fault raised and whether
\* the image is attached at the end, given whether hdiutil attach succeeds and
\* whether the firmware collection raises
collect_firmware(attach_ok, collect_ok) ==
    IF ~attach_ok
    THEN [fault |-> "CalledProcessError", attached |-> FALSE,
          steps |-> <<FileStep("hdiutil", "recovery", "attach")>>]
    ELSE IF ~collect_ok
    THEN [fault |-> "firmware collection failed", attached |-> TRUE,
          steps |-> <<FileStep("hdiutil", "recovery", "attach"),
                      FileStep("WiFiFWCollection", "recovery", "wifi")>>]
    ELSE [fault |-> NoFault, attached |-> FALSE,
          steps |-> <<FileStep("hdiutil", "recovery", "attach"),
                      FileStep("WiFiFWCollection", "recovery", "wifi"),
                      FileStep("add_files", "recovery", "wifi"),
                      FileStep("hdiutil", "recovery", "detach")>>]

----------------------------------------------------------------------------
(* The containers and collaborators the operations are run on *)

Chars_System == <<"O", "S">>
Chars_Other == <<"V">>

Volume(dev, name, roles) ==
    [DeviceIdentifier |-> dev, Name |-> name, Roles |-> roles,
     APFSVolumeUUID |-> <<"UUID", dev>>]

VolumeGroup(g, members) == [APFSVolumeGroupUUID |-> <<"VG", g>>, Volumes |-> members]

Member(dev, role) == [DeviceIdentifier |-> dev, Role |-> role]

EmptyContainer == [Volumes |-> <<>>, VolumeGroups |-> <<>>]

\* n more volumes of one role list, after the volumes the container holds
WithVolumes(ct, n, roles) ==
    [ct EXCEPT !.Volumes = @ \o [i \in 1..n |->
        Volume(Len(ct.Volumes) + i,
               IF roles = <<"System">> THEN Chars_System ELSE Chars_Other, roles)]]

\* one more volume group of s System and d Data volumes, new volumes of the container
WithGroup(ct, s, d) ==
    LET n == Len(ct.Volumes)
        c1 == WithVolumes(WithVolumes(ct, s, <<"System">>), d, <<"Data">>)
        members == [i \in 1..(s + d) |->
                       Member(n + i, IF i <= s THEN "System" ELSE "Data")]
    IN  [c1 EXCEPT !.VolumeGroups =
            Append(@, VolumeGroup(Len(ct.VolumeGroups) + 1, members))]

RECURSIVE WithGroups(_, _, _)
WithGroups(ct, shapes, i) ==
    IF i > Len(shapes) THEN ct
    ELSE WithGroups(WithGroup(ct, shapes[i][1], shapes[i][2]), shapes, i + 1)

\* the <<System members, Data members>> of a volume group: well-formed, and malformed
GroupShapes == {<<1, 1>>, <<1, 0>>, <<0, 1>>, <<2, 1>>, <<1, 2>>}

ShapeSeqs == UNION {[1..n -> GroupShapes] : n \in 0..MaxGroups}

\* a volume that has both roles: its role list is neither [Preboot] nor [Recovery]
MultiRole == <<"Preboot", "Recovery">>

EnumContainers ==
    {WithGroups(WithVolumes(WithVolumes(WithVolumes(EmptyContainer,
                    p, <<"Preboot">>), r, <<"Recovery">>),
                    IF m THEN 1 ELSE 0, MultiRole), sh, 1) :
        p \in 0..MaxDup, r \in 0..MaxDup, m \in BOOLEAN, sh \in ShapeSeqs}

Devices(ct) == {ct.Volumes[i].DeviceIdentifier : i \in 1..Len(ct.Volumes)}

\* a record left in part.os by an earlier enumeration
StaleOS == OSInfo(<<"stale">>)

Version_A == <<"12.3">>
Version_B == <<"13.0">>

DefaultSysinfo ==
    [sfr_ver |-> Some(Version_A), fsfr_ver |-> None,
     board_id |-> 10, chip_id |-> 33027, device_class |-> "j274ap"]

DefaultFS ==
    [library |-> TRUE,
     plists |-> [n \in {VersionFiles[i] : i \in 1..Len(VersionFiles)} |->
                    IF n = VersionFiles[1] THEN Some(Version_A) ELSE None],
     bputil |-> "ok", bps |-> <<>>, kernelcache |-> None,
     tg_admin_users |-> FALSE, tg_schg |-> FALSE, admin_users |-> TRUE,
     chflags |-> "ok", dutil_applies |-> TRUE]

MountCall(dev) == [op |-> "mount", dev |-> dev, name |-> <<>>, role |-> "", groupWith |-> 0]

MountCalls(devs) == [i \in 1..Len(devs) |-> MountCall(devs[i])]

Result(fault, val) == [fault |-> fault, val |-> val]

NoResult == Result(NoFault, None)

\* the variables of the installer's later stages, at rest
InstallerIdle ==
    /\ osi = None
    /\ entry = None
    /\ label = None
    /\ manifest = <<>>
    /\ selected = None
    /\ attached = FALSE
    /\ bpmap = None

----------------------------------------------------------------------------
(* Enumeration: collect, collect_part, collect_recovery, check_volume on one
   partition *)

InitEnum ==
    /\ pc = "start"
    /\ ret = NoResult
    /\ calls = <<>>
    /\ fs = DefaultFS
    /\ InstallerIdle
    /\ \/ /\ \E c \in {None} \cup {Some(ct) : ct \in EnumContainers},
                os \in {<<>>, <<StaleOS>>} :
                part = [type |-> "Apple_APFS", label |-> None, container |-> c, os |-> os]
          /\ locked \in {{}} \cup
                 {{d} : d \in IF IsNone(part.container) THEN {}
                               ELSE Devices(Get(part.container))}
          /\ sysinfo = DefaultSysinfo
       \/ /\ \E ct \in EnumContainers, os \in {<<>>, <<StaleOS>>} :
                part = [type |-> "Apple_APFS_Recovery", label |-> None,
                        container |-> Some(ct), os |-> os]
          /\ locked = {}
          /\ \E sfr \in {Some(Version_A), Some(Version_B)},
                fsfr \in {None, Some(<<>>), Some(Version_A)} :
                sysinfo = [DefaultSysinfo EXCEPT !.sfr_ver = sfr, !.fsfr_ver = fsfr]
    /\ disk = part.container

Collect ==
    /\ pc = "start"
    /\ \E r \in {collect(part, sysinfo, fs)} :
           /\ part' = [part EXCEPT !.os = r.os]
           /\ ret' = Result(r.fault, None)
           /\ calls' = calls \o MountCalls(r.mounts)
    /\ pc' = "collect"
    /\ UNCHANGED <<disk, locked, sysinfo, fs, osi, entry, label, manifest,
                   selected, attached, bpmap>>

CollectRecovery ==
    /\ pc = "start"
    /\ part.type = "Apple_APFS_Recovery"
    /\ part' = [part EXCEPT !.os = collect_recovery(part, sysinfo)]
    /\ ret' = NoResult
    /\ pc' = "collect_recovery"
    /\ UNCHANGED <<disk, locked, sysinfo, fs, osi, calls, entry, label, manifest,
                   selected, attached, bpmap>>

CollectPart ==
    /\ pc = "start"
    /\ part.type = "Apple_APFS"
    /\ \E r \in {collect_part(part, fs)} :
           /\ part' = [part EXCEPT !.os = r.os]
           /\ ret' = Result(r.fault, r.val)
           /\ calls' = calls \o MountCalls(r.mounts)
    /\ pc' = "collect_part"
    /\ UNCHANGED <<disk, locked, sysinfo, fs, osi, entry, label, manifest,
                   selected, attached, bpmap>>

CheckVolume ==
    /\ pc \in {"start", "prepare_volume"}
    /\ part.type = "Apple_APFS"
    /\ ret.fault = NoFault
    /\ \E r \in {check_volume(part, fs, osi)} :
           /\ part' = [part EXCEPT !.os = r.os]
           /\ ret' = Result(r.fault, None)
           /\ osi' = r.osi
           /\ calls' = calls \o MountCalls(r.mounts)
    /\ pc' = "check_volume"
    /\ UNCHANGED <<disk, locked, sysinfo, fs, entry, label, manifest,
                   selected, attached, bpmap>>

NextEnum == Collect \/ CollectRecovery \/ CollectPart \/ CheckVolume

SpecEnum == InitEnum /\ [][NextEnum]_vars

----------------------------------------------------------------------------
(* Properties of the enumeration *)

HasContainer == ~IsNone(part.container)

\* the number of volumes of a container whose role list is exactly roles
CountRoles(ct, roles) ==
    Cardinality({i \in 1..Len(ct.Volumes) : ct.Volumes[i].Roles = roles})

OnePrebootOneRecovery ==
    /\ HasContainer
    /\ CountRoles(Get(part.container), <<"Preboot">>) = 1
    /\ CountRoles(Get(part.container), <<"Recovery">>) = 1

Mounted == \E i \in 1..Len(calls) : calls[i].op = "mount"

\* the devices of the members of a volume group that have a given Role
RoleDevices(vg, role) ==
    {vg.Volumes[j].DeviceIdentifier :
        j \in {k \in 1..Len(vg.Volumes) : vg.Volumes[k].Role = role}}

MemberCount(vg, role) ==
    Cardinality({k \in 1..Len(vg.Volumes) : vg.Volumes[k].Role = role})

\* the positions of the groups with exactly one Data and exactly one System member
GoodGroups(ct) ==
    {i \in 1..Len(ct.VolumeGroups) :
        /\ MemberCount(ct.VolumeGroups[i], "Data") = 1
        /\ MemberCount(ct.VolumeGroups[i], "System") = 1}

\* the k-th such group, in container order
NthGood(ct, k) ==
    ct.VolumeGroups[CHOOSE i \in GoodGroups(ct) :
                        Cardinality({j \in GoodGroups(ct) : j <= i}) = k]

TheDevice(vg, role) == CHOOSE d \in RoleDevices(vg, role) : TRUE

\* record o carries the id of group vg and vg's own System and Data volumes
Carries(o, vg) ==
    /\ o.vgid = vg.APFSVolumeGroupUUID
    /\ o.sys_volume = Some(TheDevice(vg, "System"))
    /\ o.system = Some(MountPath(TheDevice(vg, "System")))
    /\ o.data = IF TheDevice(vg, "Data") \in locked THEN None
                ELSE Some(MountPath(TheDevice(vg, "Data")))

\* the devices collect_os has to mount for group vg: Preboot, Recovery, its System
RequiredDevices(ct, vg) ==
    {ct.Volumes[i].DeviceIdentifier :
        i \in {j \in 1..Len(ct.Volumes) :
                  ct.Volumes[j].Roles \in {<<"Preboot">>, <<"Recovery">>}}}
        \cup {TheDevice(vg, "System")}

\* the first well-formed group (counted among the well-formed) that cannot be
\* resolved because a required mount fails; 0 when there is none
FirstFaulty(ct) ==
    LET bad == {k \in 1..Cardinality(GoodGroups(ct)) :
                   RequiredDevices(ct, NthGood(ct, k)) \cap locked # {}}
    IN  IF bad = {} THEN 0 ELSE Min(bad)

\* C1: on a container with zero or several [Preboot] volumes, or zero or several
\* [Recovery] volumes, collect_part raises nothing, mounts nothing, leaves part.os
\* empty and returns an empty OS list.
C1_ReturnsEmptyList ==
    (/\ pc = "collect_part"
     /\ HasContainer
     /\ ~OnePrebootOneRecovery)
    => (/\ ret.fault = NoFault
        /\ ~Mounted
        /\ part.os = <<>>
        /\ ret.val = Some(<<>>))

\* C2 as stated: with one [Preboot] and one [Recovery] volume, collect_part
\* completes and part.os holds exactly one record per well-formed group, in
\* container order, each carrying its group's id and System and Data volumes.
C2_EveryWellFormedGroupYields ==
    (pc = "collect_part" /\ OnePrebootOneRecovery)
    => (/\ ret.fault = NoFault
        /\ Len(part.os) = Cardinality(GoodGroups(Get(part.container)))
        /\ \A k \in 1..Len(part.os) :
              Carries(part.os[k], NthGood(Get(part.container), k)))

\* C2 as amended: malformed groups are skipped and never abort the partition;
\* the well-formed groups yield one record each, in container order, up to the
\* first well-formed group whose resolution faults (a Preboot, Recovery or
\* System mount that fails): that fault leaves collect_part and no later group
\* is resolved.
C2_WellFormedGroupsUpToFault ==
    (pc = "collect_part" /\ OnePrebootOneRecovery)
    => (/\ \A k \in 1..Len(part.os) :
              /\ k <= Cardinality(GoodGroups(Get(part.container)))
              /\ Carries(part.os[k], NthGood(Get(part.container), k))
        /\ IF FirstFaulty(Get(part.container)) = 0
           THEN /\ ret.fault = NoFault
                /\ Len(part.os) = Cardinality(GoodGroups(Get(part.container)))
                /\ ret.val = Some(part.os)
           ELSE /\ ret.fault # NoFault
                /\ Len(part.os) = FirstFaulty(Get(part.container)) - 1)

\* a malformed group is skipped and its well-formed sibling after it resolved
C2_Witness ==
    /\ pc = "collect_part"
    /\ OnePrebootOneRecovery
    /\ ret.fault = NoFault
    /\ Len(Get(part.container).VolumeGroups) = 2
    /\ GoodGroups(Get(part.container)) = {2}
    /\ Len(part.os) = 1
    /\ part.os[1].vgid = Get(part.container).VolumeGroups[2].APFSVolumeGroupUUID

\* the number of records the classification of the partition resolves when
\* every mount succeeds
ResolvedCount ==
    IF OnePrebootOneRecovery THEN Cardinality(GoodGroups(Get(part.container)))
    ELSE 0

\* C3: check_volume raises 'Container is not ready for OS install' when zero
\* records resolve (no container, missing or duplicated Preboot/Recovery, no
\* well-formed group) and when several resolve; when exactly one resolves it
\* raises nothing and stores that record in self.osi.
C3_NotReadyUnlessExactlyOne ==
    (pc = "check_volume" /\ IsNone(entry) /\ locked = {})
    => IF ResolvedCount = 1
       THEN /\ ret.fault = NoFault
            /\ Len(part.os) = 1
            /\ osi = Some(part.os[1])
       ELSE ret.fault = NotReady

\* the records collect_recovery has to add to part.os
ExpectedRecovery(p, si) ==
    IF CountRoles(Get(p.container), <<"Recovery">>) # 1 THEN <<>>
    ELSE LET v == Get(p.container).Volumes[
                      CHOOSE i \in 1..Len(Get(p.container).Volumes) :
                          Get(p.container).Volumes[i].Roles = <<"Recovery">>]
         IN  <<[vgid |-> UUID_SROS, version |-> si.sfr_ver,
                rec_vgid |-> Some(v.APFSVolumeUUID)]>>
             \o (IF ~IsNone(si.fsfr_ver) /\ si.fsfr_ver # Some(<<>>)
                 THEN <<[vgid |-> UUID_FROS, version |-> si.fsfr_ver,
                         rec_vgid |-> None]>>
                 ELSE <<>>)

RecoveryView(os) ==
    [i \in 1..Len(os) |->
        [vgid |-> os[i].vgid, version |-> os[i].version, rec_vgid |-> os[i].rec_vgid]]

\* C9: on a recovery-type partition collect_recovery appends, when exactly one
\* volume has the role list [Recovery], the primary record (vgid UUID_SROS, the
\* primary recovery version, the volume's UUID as rec_vgid), followed by a record
\* with vgid UUID_FROS if and only if sysinfo reports a non-empty fallback
\* version; otherwise it appends nothing; it never raises.
C9_RecoveryRecords ==
    [][(pc = "start" /\ part.type = "Apple_APFS_Recovery"
            /\ pc' \in {"collect", "collect_recovery"})
       => /\ ret'.fault = NoFault
          /\ RecoveryView(part'.os) =
                RecoveryView(IF pc' = "collect" THEN <<>> ELSE part.os)
                    \o ExpectedRecovery(part, sysinfo)]_vars

\* collect_recovery has added the primary record alone, the fallback version
\* being the empty string
C9_Witness ==
    /\ pc = "collect_recovery"
    /\ sysinfo.fsfr_ver = Some(<<>>)
    /\ Len(part.os) >= 1
    /\ part.os[Len(part.os)].vgid = UUID_SROS
    /\ CountRoles(Get(part.container), <<"Recovery">>) = 1

----------------------------------------------------------------------------
(* The installer: prepare_volume, then check_volume *)

\* the role list of a volume of each kind a generated container is made of
KindRoles(kind) ==
    CASE kind = "U" -> <<>>
      [] kind = "P" -> <<"Preboot">>
      [] kind = "R" -> <<"Recovery">>
      [] kind = "S" -> <<"System">>
      [] kind = "D" -> <<"Data">>
      [] kind = "M" -> <<"Data", "System">>

Kinds == {"U", "P", "R", "S", "D", "M"}

KindSeqs == UNION {[1..n -> Kinds] : n \in 0..MaxVols}

\* the container of the volumes kinds; with grouped, its [System] and [Data]
\* volumes are the members of one volume group
KindContainer(kinds, grouped) ==
    LET vols == [i \in 1..Len(kinds) |-> Volume(i, Chars_Other, KindRoles(kinds[i]))]
        sd == SelectSeq(vols, LAMBDA v : v.Roles \in {<<"System">>, <<"Data">>})
    IN  [Volumes |-> vols,
         VolumeGroups |->
            IF grouped /\ Len(sd) > 0
            THEN <<VolumeGroup(1, [i \in 1..Len(sd) |->
                                    Member(sd[i].DeviceIdentifier, sd[i].Roles[1])])>>
            ELSE <<>>]

Chars_Ma == <<"M", "a">>

PartLabels == {None, Some(Chars_Ma), Some(Chars_Ma \o Chars_DataSuffix)}

InitPrep ==
    /\ pc = "start"
    /\ ret = NoResult
    /\ calls = <<>>
    /\ \E applies \in BOOLEAN : fs = [DefaultFS EXCEPT !.dutil_applies = applies]
    /\ InstallerIdle
    /\ locked = {}
    /\ sysinfo = DefaultSysinfo
    /\ \E kinds \in KindSeqs, grouped \in BOOLEAN, l \in PartLabels :
          /\ grouped => \E i \in 1..Len(kinds) : kinds[i] \in {"S", "D"}
          /\ part = [type |-> "Apple_APFS", label |-> l,
                     container |-> Some(KindContainer(kinds, grouped)), os |-> <<>>]
    /\ disk = Get(part.container)

PrepareVolume ==
    /\ pc = "start"
    /\ ~IsNone(part.container)
    /\ IsNone(entry)
    /\ \E r \in {prepare_volume(part, Get(part.container))} :
           /\ part' = [part EXCEPT !.container = Some(r.view)]
           /\ disk' = r.disk
           /\ calls' = calls \o r.calls
           /\ label' = IF r.fault = "Multiple volumes" THEN label ELSE Some(r.label)
           /\ ret' = Result(r.fault, None)
    /\ entry' = part.container
    /\ pc' = "prepare_volume"
    /\ UNCHANGED <<locked, sysinfo, fs, osi, manifest, selected, attached, bpmap>>

NextPrep == PrepareVolume \/ (pc = "prepare_volume" /\ CheckVolume)

SpecPrep == InitPrep /\ [][NextPrep]_vars

----------------------------------------------------------------------------
(* Properties of prepare_volume *)

\* the calls that change the container
Mutations ==
    SelectSeq(calls, LAMBDA c : c.op \in {"addVolume", "changeVolumeRole", "rename"})

AddsRole(code) ==
    \E i \in 1..Len(calls) : calls[i].op = "addVolume" /\ calls[i].role = code

\* C4: prepare_volume faults, before any changeVolumeRole, rename or addVolume,
\* when the container holds more than one volume with the exact role set
\* {Preboot}, {Recovery}, {Data} or {System}.
C4_FaultsOnDuplicateRole ==
    (/\ pc = "prepare_volume"
     /\ \E i \in 1..Len(TargetRoles) : CountRoles(Get(entry), <<TargetRoles[i]>>) > 1)
    => (ret.fault # NoFault /\ Mutations = <<>>)

\* the label prepare_volume derives from the partition: its label, or 'Linux'
EntryLabel ==
    IF IsNone(part.label) \/ part.label = Some(<<>>) THEN Chars_Linux
    ELSE Get(part.label)

\* the first unroled volume of the container prepare_volume was entered with
FirstUnroled ==
    Min({i \in 1..Len(Get(entry).Volumes) : Get(entry).Volumes[i].Roles = <<>>})

\* C5: with no {Data} volume and an unroled volume at entry, prepare_volume
\* assigns the Data role to the unroled volume and then renames it to
\* '<label> - Data', adds no Data volume, and adds no Preboot or Recovery volume
\* where one of that exact role set exists already.
C5_RepurposesUnroledVolume ==
    (/\ pc = "prepare_volume"
     /\ CountRoles(Get(entry), <<"Data">>) = 0
     /\ CountRoles(Get(entry), <<>>) > 0)
    => (/\ Len(Mutations) >= 2
        /\ Mutations[1] = DutilCall("changeVolumeRole", FirstUnroled, <<>>, "D", 0)
        /\ Mutations[2] = DutilCall("rename", FirstUnroled,
                                    EntryLabel \o Chars_DataSuffix, "", 0)
        /\ ~AddsRole("D")
        /\ CountRoles(Get(entry), <<"Preboot">>) > 0 => ~AddsRole("B")
        /\ CountRoles(Get(entry), <<"Recovery">>) > 0 => ~AddsRole("R"))

\* an unroled volume, one Preboot and one Recovery volume, no Data volume: the
\* unroled volume is repurposed and neither Preboot nor Recovery is added
C5_Witness ==
    /\ pc = "prepare_volume"
    /\ ret.fault = NoFault
    /\ CountRoles(Get(entry), <<"Data">>) = 0
    /\ CountRoles(Get(entry), <<>>) = 1
    /\ CountRoles(Get(entry), <<"Preboot">>) = 1
    /\ CountRoles(Get(entry), <<"Recovery">>) = 1
    /\ Len(Mutations) >= 2
    /\ Mutations[2].op = "rename"
    /\ ~AddsRole("B") /\ ~AddsRole("R")

\* the stage of prepare_volume a call that changes the container belongs to
Stage(c) ==
    CASE c.op \in {"changeVolumeRole", "rename"} -> 1
      [] c.op = "addVolume" /\ c.role = "D" -> 1
      [] c.op = "addVolume" /\ c.role = "S" -> 2
      [] c.op = "addVolume" /\ c.role = "B" -> 3
      [] c.op = "addVolume" /\ c.role = "R" -> 4

StageRole == <<"Data", "System", "Preboot", "Recovery">>

StageIssued(n) == \E i \in 1..Len(Mutations) : Stage(Mutations[i]) = n

\* the [Data] volumes of the container on disk
DataDevices ==
    {disk.Volumes[i].DeviceIdentifier :
        i \in {j \in 1..Len(disk.Volumes) : disk.Volumes[j].Roles = <<"Data">>}}

\* C16: the calls of prepare_volume that change the container come in the order
\* Data (repurpose or create), System, Preboot, Recovery, each stage only if no
\* volume of that exact role set existed at entry (and then always, in a run
\* that completes); System is created with groupWith the device id of the
\* container's [Data] volume; and with no [Data] volume to be found after the
\* Data step prepare_volume faults without creating System, Preboot, Recovery.
C16_CreationOrder ==
    pc = "prepare_volume"
    => /\ \A i, j \in 1..Len(Mutations) :
              i < j => Stage(Mutations[i]) <= Stage(Mutations[j])
       /\ \A n \in 1..4 :
              /\ StageIssued(n) => CountRoles(Get(entry), <<StageRole[n]>>) = 0
              /\ (ret.fault = NoFault /\ CountRoles(Get(entry), <<StageRole[n]>>) = 0)
                    => StageIssued(n)
       /\ \A i \in 1..Len(Mutations) :
              Stage(Mutations[i]) = 2
              => (DataDevices # {} /\ Mutations[i].groupWith = Min(DataDevices))
       /\ DataDevices = {}
              => /\ ret.fault = "Could not find Data volume"
                 /\ ~StageIssued(2) /\ ~StageIssued(3) /\ ~StageIssued(4)

\* on a container without volumes the four stages are issued in order, System
\* grouped with the new Data volume
C16_Witness ==
    /\ pc = "prepare_volume"
    /\ ret.fault = NoFault
    /\ Get(entry).Volumes = <<>>
    /\ Len(Mutations) = 4
    /\ \A n \in 1..4 : Stage(Mutations[n]) = n
    /\ Mutations[2].groupWith = 1
    /\ disk.Volumes[1].Roles = <<"Data">>

\* the positions of the refreshes among the calls of prepare_volume
Refreshes == {i \in 1..Len(calls) : calls[i].op = "refresh_part"}

\* the positions of the calls that change the container
Changes ==
    {i \in 1..Len(calls) : calls[i].op \in {"addVolume", "changeVolumeRole", "rename"}}

Completed == pc = "prepare_volume" /\ ret.fault = NoFault

\* C17: a completed prepare_volume refreshes the container view exactly once,
\* after its last volume creation or role change.
C17_RefreshedOnceAtEnd ==
    Completed
    => (/\ Cardinality(Refreshes) = 1
        /\ \A r \in Refreshes : \A c \in Changes : c < r)

\* the positions of the Data step's calls: role change, rename, creation of Data
DataChanges == {i \in Changes : Stage(calls[i]) = 1}

\* C17 with the refresh of the Data step: a completed prepare_volume refreshes
\* the view as its last call; it refreshes one more time, right after the Data
\* step and before System, Preboot or Recovery is created, exactly when no
\* [Data] volume existed at entry; there is no refresh between the creations of
\* System, Preboot and Recovery.
C17_RefreshAfterDataAndAtEnd ==
    Completed
    => (/\ Len(calls) \in Refreshes
        /\ \A c \in Changes : c < Len(calls)
        /\ IF CountRoles(Get(entry), <<"Data">>) > 0
           THEN Refreshes = {Len(calls)}
           ELSE /\ DataChanges # {}
                /\ Refreshes = {Max(DataChanges) + 1, Len(calls)}
                /\ \A c \in Changes \ DataChanges : Max(DataChanges) + 1 < c)

\* a Data volume is created, the view refreshed, System, Preboot and Recovery
\* created, the view refreshed again
C17_Witness ==
    /\ Completed
    /\ CountRoles(Get(entry), <<"Data">>) = 0
    /\ Len(calls) = 6
    /\ Refreshes = {2, 6}
    /\ Changes = {1, 3, 4, 5}

\* the container at entry holds each of the four role sets at most once and has
\* no volume group, and the DiskUtility calls take effect
CleanEntry ==
    /\ \A n \in 1..4 : CountRoles(Get(entry), <<StageRole[n]>>) <= 1
    /\ Get(entry).VolumeGroups = <<>>
    /\ DutilApplies

\* C19: from such a container, with mounts that succeed, a completed
\* prepare_volume leaves exactly one volume of each of the role sets [Data],
\* [System], [Preboot], [Recovery], and the check_volume that follows resolves
\* exactly one OS record and succeeds, also when a System volume but no Data
\* volume existed at entry.
C19_PreparedContainerIsReady ==
    /\ (Completed /\ CleanEntry)
          => \A n \in 1..4 : CountRoles(Get(part.container), <<StageRole[n]>>) = 1
    /\ (pc = "check_volume" /\ CleanEntry)
          => (/\ ret.fault = NoFault
              /\ Len(part.os) = 1
              /\ osi = Some(part.os[1]))

\* the name prepare_volume is to give the System volume: the partition's label
\* or 'Linux', less one trailing ' - Data' when a [Data] volume existed at entry
ExpectedSystemName ==
    IF /\ CountRoles(Get(entry), <<"Data">>) > 0
       /\ Len(EntryLabel) >= Len(Chars_DataSuffix)
       /\ SubSeq(EntryLabel, Len(EntryLabel) - Len(Chars_DataSuffix) + 1,
                 Len(EntryLabel)) = Chars_DataSuffix
    THEN SubSeq(EntryLabel, 1, Len(EntryLabel) - Len(Chars_DataSuffix))
    ELSE EntryLabel

\* C20: the System volume prepare_volume creates is named with the partition's
\* label, or 'Linux' when it has none, unchanged unless a [Data] volume exists
\* and the label ends in ' - Data', and then with that one suffix removed.
C20_SystemNamedByLabel ==
    pc = "prepare_volume"
    => \A i \in 1..Len(Mutations) :
           Stage(Mutations[i]) = 2 => Mutations[i].name = ExpectedSystemName

----------------------------------------------------------------------------
(* The installer: install_files, then collect_firmware *)

Identity(board, chip, class, behavior, variant, build) ==
    [ApBoardID |-> board, ApChipID |-> chip,
     Info |-> [DeviceClass |-> class, RestoreBehavior |-> behavior,
               Variant |-> variant, BuildNumber |-> build]]

Chars_0x0A == <<"0", "x", "0", "A">>
Chars_0x0a == <<"0", "x", "0", "a">>
Chars_0x24 == <<"0", "x", "2", "4">>
Chars_0x8103 == <<"0", "x", "8", "1", "0", "3">>
Chars_0x8112 == <<"0", "x", "8", "1", "1", "2">>

\* two identities for the device of DefaultSysinfo (builds A and B), and
\* identities that differ from them in one field
Identities ==
    {Identity(Chars_0x0A, Chars_0x8103, "j274ap", "Erase", "macOS Customer", "A"),
     Identity(Chars_0x0A, Chars_0x8103, "j274ap", "Erase", "macOS Customer", "B"),
     Identity(Chars_0x24, Chars_0x8103, "j274ap", "Erase", "macOS Customer", "C"),
     Identity(Chars_0x0a, Chars_0x8103, "j274ap", "Erase", "macOS Customer", "D"),
     Identity(Chars_0x0A, Chars_0x8112, "j274ap", "Erase", "macOS Customer", "E"),
     Identity(Chars_0x0A, Chars_0x8103, "j293ap", "Erase", "macOS Customer", "F"),
     Identity(Chars_0x0A, Chars_0x8103, "j274ap", "Update", "macOS Customer", "G"),
     Identity(Chars_0x0A, Chars_0x8103, "j274ap", "Erase", "Recovery Customer", "H")}

Manifests == UNION {[1..n -> Identities] : n \in 0..MaxIdent}

\* the record check_volume has stored for the target
TargetOSI ==
    [OSInfo(<<"VG", 1>>) EXCEPT
        !.stub = TRUE, !.label = Some(Chars_Linux), !.sys_volume = Some(2),
        !.system = Some(MountPath(2)), !.data = Some(MountPath(1)),
        !.preboot = Some(MountPath(3)), !.recovery = Some(MountPath(4)),
        !.rec_vgid = Some(<<"UUID", 4>>)]

InitInst ==
    /\ pc = "check_volume"
    /\ ret = NoResult
    /\ calls = <<>>
    /\ part = [type |-> "Apple_APFS", label |-> None, container |-> None, os |-> <<>>]
    /\ disk = None
    /\ locked = {}
    /\ \E board \in {10, 36} : sysinfo = [DefaultSysinfo EXCEPT !.board_id = board]
    /\ \E tg \in {<<FALSE, FALSE>>, <<TRUE, FALSE>>, <<TRUE, TRUE>>},
          src \in BOOLEAN, chf \in {"ok", "CalledProcessError"} :
          fs = [DefaultFS EXCEPT !.tg_admin_users = tg[1], !.tg_schg = tg[2],
                                 !.admin_users = src, !.chflags = chf]
    /\ osi = Some(TargetOSI)
    /\ entry = None
    /\ label = Some(Chars_Linux)
    /\ manifest \in Manifests
    /\ selected = None
    /\ attached = FALSE
    /\ bpmap = None

InstallFiles ==
    /\ pc = "check_volume"
    /\ ret.fault = NoFault
    /\ ~IsNone(osi)
    /\ \E r \in {install_files(manifest, sysinfo, fs)} :
           /\ ret' = Result(r.fault, None)
           /\ selected' = r.selected
           /\ calls' = calls \o r.steps
    /\ pc' = "install_files"
    /\ UNCHANGED <<part, disk, locked, sysinfo, fs, osi, entry, label, manifest,
                   attached, bpmap>>

CollectFirmware ==
    /\ pc = "install_files"
    /\ ret.fault = NoFault
    /\ \E attach_ok \in BOOLEAN, collect_ok \in BOOLEAN :
           \E r \in {collect_firmware(attach_ok, collect_ok)} :
               /\ ret' = Result(r.fault, None)
               /\ attached' = r.attached
               /\ calls' = calls \o r.steps
    /\ pc' = "collect_firmware"
    /\ UNCHANGED <<part, disk, locked, sysinfo, fs, osi, entry, label, manifest,
                   selected, bpmap>>

NextInst == InstallFiles \/ CollectFirmware

SpecInst == InitInst /\ [][NextInst]_vars

----------------------------------------------------------------------------
(* Properties of install_files and collect_firmware *)

\* the identity is one for the device: board id, chip id, device class,
\* RestoreBehavior 'Erase', Variant 'macOS Customer'
ForDevice(identity) ==
    /\ identity.ApBoardID = FormatHex(sysinfo.board_id, 2)
    /\ identity.ApChipID = FormatHex(sysinfo.chip_id, 4)
    /\ identity.Info.DeviceClass = sysinfo.device_class
    /\ identity.Info.RestoreBehavior = "Erase"
    /\ identity.Info.Variant = "macOS Customer"

MatchingPositions == {i \in 1..Len(manifest) : ForDevice(manifest[i])}

\* the identity matches the device on the three device fields, or on all fields
\* but one
NearMisses ==
    {i \in 1..Len(manifest) :
        /\ ~ForDevice(manifest[i])
        /\ Cardinality({f \in 1..5 :
              <<manifest[i].ApBoardID = FormatHex(sysinfo.board_id, 2),
                manifest[i].ApChipID = FormatHex(sysinfo.chip_id, 4),
                manifest[i].Info.DeviceClass = sysinfo.device_class,
                manifest[i].Info.RestoreBehavior = "Erase",
                manifest[i].Info.Variant = "macOS Customer">>[f]}) = 4}

\* the writes of install_files to the four volumes
VolumeWrites ==
    SelectSeq(calls, LAMBDA c :
        c.name \in {<<"System">>, <<"Data">>, <<"Preboot">>, <<"Recovery">>})

\* C6: install_files faults unless exactly one identity of the manifest is for
\* the device; with two or more it faults and selects none of them.
C6_FaultsUnlessExactlyOne ==
    pc = "install_files"
    => IF Cardinality(MatchingPositions) = 1
       THEN ret.fault # NoIdentity
       ELSE ret.fault = NoIdentity /\ IsNone(selected)

\* what the loop does: install_files faults if and only if no identity of the
\* manifest is for the device; with one or more it goes on with the first of
\* them in manifest order
SelectsFirstMatch ==
    pc = "install_files"
    => IF MatchingPositions = {}
       THEN ret.fault = NoIdentity /\ IsNone(selected)
       ELSE /\ ret.fault # NoIdentity
            /\ selected = Some(manifest[Min(MatchingPositions)])

\* two identities with different builds are for the device; the first is used
TwoMatchesFirstUsed ==
    /\ pc = "install_files"
    /\ Cardinality(MatchingPositions) >= 2
    /\ ret.fault = NoFault
    /\ selected = Some(manifest[Min(MatchingPositions)])
    /\ selected # Some(manifest[Max(MatchingPositions)])

\* C7: when no identity of the manifest is for the device, however many match
\* on some fields, install_files faults with 'Failed to locate a usable build
\* identity' and has written nothing to the System, Data, Preboot or Recovery
\* volume.
C7_NoMatchFaultsBeforeWriting ==
    (pc = "install_files" /\ MatchingPositions = {})
    => (/\ ret.fault = NoIdentity
        /\ VolumeWrites = <<>>
        /\ IsNone(selected))

\* a manifest of three identities, each one field away from the device, faults
C7_Witness ==
    /\ pc = "install_files"
    /\ MatchingPositions = {}
    /\ Cardinality(NearMisses) = 3
    /\ ret.fault = NoIdentity
    /\ calls = <<>>

HdiutilCalls(what) ==
    {i \in 1..Len(calls) : calls[i].op = "hdiutil" /\ calls[i].role = what}

\* C8: once collect_firmware has attached the image, it detaches it before it
\* ends, whether the firmware collection completes or raises: it never ends
\* with the image attached.
C8_DetachedAtEnd ==
    pc = "collect_firmware"
    => (/\ ~attached
        /\ HdiutilCalls("attach") # {} /\ ret.fault # "CalledProcessError"
              => HdiutilCalls("detach") # {})

----------------------------------------------------------------------------
(* The boot-policy parse of collect_os on its own *)

BPTokens == {Tag("coih"), Tag("nsih"), NL, ABSENT, "XYZ"}

BPTexts == UNION {[1..n -> BPTokens] : n \in 0..MaxText}

\* "blah (coih): absent\nfoo (nsih): XYZ\n"
BPExample == <<"blah ", Tag("coih"), ABSENT, NL, "foo ", Tag("nsih"), "XYZ", NL>>

InitBP ==
    /\ pc = "start"
    /\ ret = NoResult
    /\ calls = <<>>
    /\ part = [type |-> "Apple_APFS", label |-> None, container |-> None, os |-> <<>>]
    /\ disk = None
    /\ locked = {}
    /\ sysinfo = DefaultSysinfo
    /\ \E text \in BPTexts \cup {BPExample} : fs = [DefaultFS EXCEPT !.bps = text]
    /\ InstallerIdle

ParseBootPolicy ==
    /\ pc = "start"
    /\ bpmap' = Some(ParseBP(fs.bps))
    /\ pc' = "parse_bp"
    /\ UNCHANGED <<part, disk, locked, sysinfo, fs, ret, osi, calls, entry, label,
                   manifest, selected, attached>>

NextBP == ParseBootPolicy

SpecBP == InitBP /\ [][NextBP]_vars

\* the text between the first occurrence of tag and the next line break (the
\* end of the text when there is none)
LineAfter(text, tag) ==
    LET rest == SubSeq(text, IndexOf(text, tag) + 1, Len(text))
    IN  IF Contains(rest, NL) THEN SubSeq(rest, 1, IndexOf(rest, NL) - 1) ELSE rest

\* C10: for each tag k of coih, nsih: the map has no key k when '(k): ' does not
\* occur in the text; when it occurs the map has key k, whose value is the text
\* between the tag and the next line break, 'absent' being stored as unset.
C10_ValueIsRestOfLine ==
    pc = "parse_bp"
    => \A k \in {"coih", "nsih"} :
          IF Contains(fs.bps, Tag(k))
          THEN /\ k \in DOMAIN Get(bpmap)
               /\ Get(bpmap)[k] = IF LineAfter(fs.bps, Tag(k)) = <<ABSENT>> THEN None
                                  ELSE Some(LineAfter(fs.bps, Tag(k)))
          ELSE k \notin DOMAIN Get(bpmap)

\* the scenario of C10: the example text parses to {coih: unset, nsih: 'XYZ'}
C10_Example ==
    (pc = "parse_bp" /\ fs.bps = BPExample)
    => (/\ DOMAIN Get(bpmap) = {"coih", "nsih"}
        /\ Get(bpmap)["coih"] = None
        /\ Get(bpmap)["nsih"] = Some(<<"XYZ">>))

----------------------------------------------------------------------------
(* OSInfo.__str__ on synthesized records *)

Hash_A == <<"H">>
M1n1_A == <<"v1.1">>

\* boot-policy maps: none, {}, and maps with and without a coih entry
BPMaps ==
    {None, Some(<<>>)}
    \cup {Some([coih |-> c]) : c \in {None, Some(<<>>), Some(Hash_A)}}
    \cup {Some([nsih |-> Some(Hash_A)])}
    \cup {Some([coih |-> c, nsih |-> Some(Hash_A)]) : c \in {None, Some(Hash_A)}}

SynthRecords ==
    {[OSInfo(vgid) EXCEPT !.stub = stub, !.version = ver, !.m1n1_ver = m,
                          !.bp = bp, !.label = Some(Chars_System),
                          !.sys_volume = Some(1)] :
        vgid \in {UUID_SROS, UUID_FROS, <<"VG", 1>>}, stub \in BOOLEAN,
        ver \in {None, Some(Version_A)},
        m \in {None, Some(<<>>), Some(M1n1_A)}, bp \in BPMaps}

InitStr ==
    /\ pc = "start"
    /\ ret = NoResult
    /\ calls = <<>>
    /\ part = [type |-> "Apple_APFS", label |-> None, container |-> None, os |-> <<>>]
    /\ disk = None
    /\ locked = {}
    /\ sysinfo = DefaultSysinfo
    /\ fs = DefaultFS
    /\ \E o \in SynthRecords : osi = Some(o)
    /\ entry = None
    /\ label = None
    /\ manifest = <<>>
    /\ selected = None
    /\ attached = FALSE
    /\ bpmap = None

Display ==
    /\ pc = "start"
    /\ ret' = Result(NoFault, Some(OSInfo_str(Get(osi))))
    /\ pc' = "__str__"
    /\ UNCHANGED <<part, disk, locked, sysinfo, fs, osi, calls, entry, label,
                   manifest, selected, attached, bpmap>>

NextStr == Display

SpecStr == InitStr /\ [][NextStr]_vars

\* the record has a custom image hash: its map has a coih entry that is not empty
HasCoih == ~IsNone(Get(osi).bp) /\ Truthy(BPGet(Get(Get(osi).bp), "coih"))

Sentinel == Get(osi).vgid \in {UUID_SROS, UUID_FROS}

Shown == Get(ret.val).form

NonStubForms == {"macOS + m1n1", "macOS + unknown fuOS", "macOS"}

\* C11: the display form follows the precedence primary-recovery vgid, fallback-
\* recovery vgid, non-stub, then for a stub: hash present and bootloader version
\* set (not None) -> m1n1 stub, hash present and no bootloader version (None) ->
\* unknown fuOS stub, no hash -> incomplete install; a non-stub record with no
\* bootloader version and no coih key shows the plain form.
C11_DisplayPrecedence ==
    pc = "__str__"
    => /\ Get(osi).vgid = UUID_SROS => Shown = "recoveryOS [Primary recoveryOS]"
       /\ Get(osi).vgid = UUID_FROS => Shown = "recoveryOS [Fallback recoveryOS]"
       /\ (~Sentinel /\ ~Get(osi).stub) => Shown \in NonStubForms
       /\ (~Sentinel /\ ~Get(osi).stub /\ IsNone(Get(osi).m1n1_ver) /\ ~HasCoih)
              => Shown = "macOS"
       /\ (~Sentinel /\ Get(osi).stub /\ HasCoih /\ ~IsNone(Get(osi).m1n1_ver))
              => Shown = "m1n1 (macOS stub)"
       /\ (~Sentinel /\ Get(osi).stub /\ HasCoih /\ IsNone(Get(osi).m1n1_ver))
              => Shown = "unknown fuOS (macOS stub)"
       /\ (~Sentinel /\ Get(osi).stub /\ ~HasCoih)
              => Shown = "incomplete install (macOS stub)"

\* C11 with the bootloader version of a stub counted as set only when it is a
\* non-empty string: the same precedence, and for a stub with a hash the m1n1
\* form exactly when the version is non-empty, the unknown-fuOS form otherwise
\* (version None or empty); for a non-stub the plain form exactly when the
\* version is None and there is no hash.
C11_DisplayPrecedenceTruthy ==
    pc = "__str__"
    => /\ Get(osi).vgid = UUID_SROS => Shown = "recoveryOS [Primary recoveryOS]"
       /\ Get(osi).vgid = UUID_FROS => Shown = "recoveryOS [Fallback recoveryOS]"
       /\ (~Sentinel /\ ~Get(osi).stub) => Shown \in NonStubForms
       /\ (~Sentinel /\ ~Get(osi).stub)
              => (Shown = "macOS" <=> (IsNone(Get(osi).m1n1_ver) /\ ~HasCoih))
       /\ (~Sentinel /\ Get(osi).stub /\ HasCoih /\ Truthy(Get(osi).m1n1_ver))
              => Shown = "m1n1 (macOS stub)"
       /\ (~Sentinel /\ Get(osi).stub /\ HasCoih /\ ~Truthy(Get(osi).m1n1_ver))
              => Shown = "unknown fuOS (macOS stub)"
       /\ (~Sentinel /\ Get(osi).stub /\ ~HasCoih)
              => Shown = "incomplete install (macOS stub)"

\* a stub with a hash and an empty bootloader version shows as unknown fuOS
C11_Witness ==
    /\ pc = "__str__"
    /\ ~Sentinel /\ Get(osi).stub /\ HasCoih
    /\ Get(osi).m1n1_ver = Some(<<>>)
    /\ Shown = "unknown fuOS (macOS stub)"

----------------------------------------------------------------------------
(* collect_os on one well-formed volume group, over what it can find there *)

\* volumes 1 Preboot, 2 Recovery, 3 System, 4 Data; one group of 3 and 4
OSContainer ==
    WithGroup(WithVolumes(WithVolumes(EmptyContainer, 1, <<"Preboot">>),
                          1, <<"Recovery">>), 1, 1)

OSVolumes ==
    GroupVolumes(OSContainer,
                 [Preboot |-> OSContainer.Volumes[1], Recovery |-> OSContainer.Volumes[2]],
                 OSContainer.VolumeGroups[1])

\* bputil outputs: empty, hash absent, hash and nsih, hash without an nsih line,
\* hash with nsih absent
BPOutputs ==
    {<<>>,
     <<Tag("coih"), ABSENT, NL, Tag("nsih"), "XYZ", NL>>,
     <<Tag("coih"), "H", NL, Tag("nsih"), "XYZ", NL>>,
     <<Tag("coih"), "H", NL>>,
     <<Tag("coih"), "H", NL, Tag("nsih"), ABSENT, NL>>}

\* kernelcache.custom.<coih>: missing, without the marker, with a version, with
\* an empty version
Kernelcaches ==
    {None,
     Some(<<"code">>),
     Some(<<"code", M1N1_MARKER, "v1.1", NUL, "more">>),
     Some(<<M1N1_MARKER, NUL>>)}

InitOS ==
    /\ pc = "start"
    /\ ret = NoResult
    /\ calls = <<>>
    /\ part = [type |-> "Apple_APFS", label |-> None,
               container |-> Some(OSContainer), os |-> <<>>]
    /\ disk = part.container
    /\ locked \in {{}} \cup {{d} : d \in Devices(OSContainer)}
    /\ sysinfo = DefaultSysinfo
    /\ \E lib \in BOOLEAN, v1 \in {None, Some(Version_A)}, v2 \in {None, Some(Version_B)},
          bpu \in BputilOutcomes, text \in BPOutputs, kc \in Kernelcaches :
          fs = [DefaultFS EXCEPT
                   !.library = lib,
                   !.plists = [n \in DOMAIN DefaultFS.plists |->
                                  IF n = VersionFiles[1] THEN v1 ELSE v2],
                   !.bputil = bpu, !.bps = text, !.kernelcache = kc]
    /\ InstallerIdle

CollectOS ==
    /\ pc = "start"
    /\ \E r \in {collect_os(OSVolumes, OSContainer.VolumeGroups[1].APFSVolumeGroupUUID,
                            fs)} :
           /\ ret' = Result(r.fault, r.osi)
           /\ calls' = calls \o MountCalls(r.mounts)
    /\ pc' = "collect_os"
    /\ UNCHANGED <<part, disk, locked, sysinfo, fs, osi, entry, label, manifest,
                   selected, attached, bpmap>>

NextOS == CollectOS \/ CollectPart

SpecOS == InitOS /\ [][NextOS]_vars

----------------------------------------------------------------------------
(* Properties of collect_os *)

\* the Preboot, Recovery and System volumes of the group all mount
RequiredMountsOK == locked \cap {1, 2, 3} = {}

\* the version in the first of the two candidate files that exists
FirstExistingVersion ==
    IF ~IsNone(fs.plists["SystemVersion.plist"]) THEN fs.plists["SystemVersion.plist"]
    ELSE fs.plists["SystemVersion-disabled.plist"]

\* the stages of collect_os after the mounts have nothing to raise: the boot
\* policy query answers or exits non-zero, and the text gives no hash
LaterStagesQuiet ==
    \/ fs.bputil = "CalledProcessError"
    \/ fs.bputil = "ok" /\ ~Truthy(BPGet(ParseBP(fs.bps), "coih"))

\* C12: the version of the record is that of the first candidate file that
\* exists (SystemVersion.plist before SystemVersion-disabled.plist), unset when
\* neither exists, and a missing file raises no fault.
C12_VersionFromFirstExisting ==
    (pc = "collect_os" /\ RequiredMountsOK)
    => (/\ LaterStagesQuiet => (ret.fault = NoFault /\ ~IsNone(ret.val))
        /\ ~IsNone(ret.val) => Get(ret.val).version = FirstExistingVersion)

\* the boot-policy text gives a non-empty hash and an nsih value
HashAndNsih ==
    /\ fs.bputil = "ok"
    /\ Truthy(BPGet(ParseBP(fs.bps), "coih"))
    /\ Truthy(BPGet(ParseBP(fs.bps), "nsih"))

\* the text between the first marker and the next NUL of the custom kernelcache
MarkedVersion ==
    LET fuos == Get(fs.kernelcache)
        rest == SubSeq(fuos, IndexOf(fuos, M1N1_MARKER) + 1, Len(fuos))
    IN  IF Contains(rest, NUL) THEN SubSeq(rest, 1, IndexOf(rest, NUL) - 1) ELSE rest

\* C13: with a non-empty hash, collect_os raises nothing when the custom
\* kernelcache is missing or has no marker and returns the record with the
\* bootloader version unset; with the marker the bootloader version is the text
\* between the marker and the next NUL.
C13_NoVersionIsNoFault ==
    (pc = "collect_os" /\ RequiredMountsOK /\ HashAndNsih)
    => (/\ ret.fault = NoFault
        /\ ~IsNone(ret.val)
        /\ Get(ret.val).m1n1_ver =
              IF IsNone(fs.kernelcache) \/ ~Contains(Get(fs.kernelcache), M1N1_MARKER)
              THEN None ELSE Some(MarkedVersion))

\* C14: whenever the boot-policy query fails, by a non-zero exit or because the
\* tool is absent, collect_os returns the record built so far with no
\* boot-policy map and no bootloader version, and collect_part raises nothing.
C14_QueryFailureRecoverable ==
    (/\ pc \in {"collect_os", "collect_part"}
     /\ RequiredMountsOK
     /\ fs.bputil # "ok")
    => (/\ ret.fault = NoFault
        /\ pc = "collect_os"
              => (/\ ~IsNone(ret.val)
                  /\ IsNone(Get(ret.val).bp)
                  /\ IsNone(Get(ret.val).m1n1_ver)
                  /\ Get(ret.val).system = Some(MountPath(3))
                  /\ Get(ret.val).stub = ~fs.library
                  /\ Get(ret.val).label = Some(Chars_System)))

\* C15: a failed Preboot, Recovery or System mount propagates as a fault and no
\* record is produced; a failed Data mount raises nothing: the record is
\* produced with its Data path unset and its System, Preboot and Recovery paths
\* those the mounts returned.
C15_OnlyDataMountSwallowed ==
    pc = "collect_os"
    => /\ ~RequiredMountsOK => (ret.fault = "MountError" /\ IsNone(ret.val))
       /\ RequiredMountsOK
             => /\ ret.fault # "MountError"
                /\ LaterStagesQuiet => (ret.fault = NoFault /\ ~IsNone(ret.val))
                /\ ~IsNone(ret.val)
                      => /\ Get(ret.val).data = IF 4 \in locked THEN None
                                                ELSE Some(MountPath(4))
                         /\ Get(ret.val).system = Some(MountPath(3))
                         /\ Get(ret.val).preboot = Some(MountPath(1))
                         /\ Get(ret.val).recovery = Some(MountPath(2))

\* the Data volume fails to mount and the record is produced without a Data path
C15_Witness ==
    /\ pc = "collect_os"
    /\ locked = {4}
    /\ ret.fault = NoFault
    /\ ~IsNone(ret.val)
    /\ Get(ret.val).data = None
    /\ Get(ret.val).system = Some(MountPath(3))
    /\ calls = MountCalls(<<1, 2, 3, 4>>)

----------------------------------------------------------------------------
(* Properties of install_files: the immutable flag of AdminUserRecoveryInfo.plist *)

\* chflags: whether the target carries schg once the first n calls have run
RECURSIVE FlagAfter(_)
FlagAfter(n) ==
    IF n = 0 THEN fs.tg_schg
    ELSE IF calls[n].op = "chflags" THEN calls[n].role = "schg"
    ELSE FlagAfter(n - 1)

CopyPositions == {i \in 1..Len(calls) : calls[i] = CopyAdminUsers}

\* C18: the copy of AdminUserRecoveryInfo.plist never happens while the target
\* carries schg: when the target exists the flag is cleared right before the
\* copy; and in every run that goes on after the copy the flag is set right
\* after it, before any later step, whether the target pre-existed or not.
C18_CopyBetweenFlagChanges ==
    pc = "install_files"
    => \A i \in CopyPositions :
          /\ ~FlagAfter(i - 1)
          /\ fs.tg_admin_users => calls[i - 1] = FileStep("chflags", "Preboot", "noschg")
          /\ i < Len(calls) => calls[i + 1] = FileStep("chflags", "Preboot", "schg")
          /\ \A j \in (i + 2)..Len(calls) : FlagAfter(j - 1)
          /\ ret.fault = NoFault => Len(calls) > i + 1

\* the target pre-existed with the flag set: it is cleared, the copy made, the
\* flag set, and the install goes on to the symlink
C18_Witness ==
    /\ pc = "install_files"
    /\ ret.fault = NoFault
    /\ fs.tg_admin_users /\ fs.tg_schg
    /\ \E i \in CopyPositions :
          /\ calls[i - 1].role = "noschg"
          /\ calls[i + 1].role = "schg"
          /\ calls[i + 2].op = "symlink"

====
